---- MODULE Spec2Model ----
(***************************************************************************)
(* Model of videoauto: the subtitle-driven cut tools                       *)
(*   ffmpeg_cut_select.py / ffmpeg_cut_trim.py  (parse_srt_segments,       *)
(*                                               cut_video)                *)
(*   srt_cut_sync.py                            (sync_srt)                 *)
(*   srt_to_voice.py                            (srt_to_voice,             *)
(*                                               ffmpeg_speedup)           *)
(*                                                                         *)
(* Time is counted in milliseconds, the resolution of an SRT timestamp.    *)
(* A datetime.timedelta is exact, so it is an integer number of ms.  A     *)
(* Python float holding seconds is modelled by the exact rounding error of *)
(* the IEEE-754 double nearest to ms/1000 (see TotalSeconds).              *)
(***************************************************************************)
EXTENDS Integers, Sequences, FiniteSets, TLC

\* ---------------------------------------------------------------- bounds
MaxTick == 1
MaxCues == 3
MaxVoiceTick == 2
MaxVoiceCues == 2
\* Iterations of ffmpeg_speedup's two while loops that are followed.
MaxStages == 6
\* How far (ms) the length of ffmpeg's atempo output may be off the
\* length asked for.
StretchJitterMs == 1

\* ------------------------------------------------------ program constants
\* The merge threshold 0.5 s written into parse_srt_segments.
MergeGapMs == 500
\* The default of sync_srt's max_gap parameter, 0.5 s.
DefaultMaxGapMs == 500

\* ------------------------------------------------------------ input sets
\* Cue boundaries: 0 s, 0.1 s, 0.2 s, and 0.7 s, 0.9 s, ...
Times == {100 * k : k \in 0..2} \cup {700 + 200 * k : k \in 0..MaxTick}

\* A cue of the subtitle file (srt.Subtitle): start < end, both >= 0.
Cues == {c \in [start : Times, end : Times] : c.start < c.end}

\* The cue lists a subtitle file can hold, in file order.
CueSeqs == UNION {[1..n -> Cues] : n \in 0..MaxCues}

\* Cue boundaries of the subtitle files given to srt_to_voice:
\* 0 s, 1.000 s, 2.001 s, 3.001 s, ...
VoiceTimes == {1000 * k + (k \div 2) : k \in 0..MaxVoiceTick}

VoiceCues == {c \in [start : VoiceTimes, end : VoiceTimes] : c.start < c.end}

VoiceCueSeqs == UNION {[1..n -> VoiceCues] : n \in 0..MaxVoiceCues}

\* Lengths (ms) of the speech edge-tts renders for a cue.
Rendered == {500, 1500, 5000}

\* Lengths trim_silence can leave of a buffer of r ms: nothing to trim,
\* 1.3 s of leading and trailing silence removed, or nothing left (the
\* whole buffer is below the silence threshold and audio[n:0] is empty).
TrimmedLens(r) == {0, r} \cup {t \in {r - 1300} : t > 0}

\* Values of --gap given to sync_srt: 0 s and the default.
MaxGaps == {0, DefaultMaxGapMs}

\* The five decimals of f"atempo={remain:.5f}": one unit is 0.00001.
AtempoScale == 100000

\* ------------------------------------------------------ integer helpers
Abs(x) == IF x < 0 THEN -x ELSE x

Max(a, b) == IF a >= b THEN a ELSE b

Min(a, b) == IF a <= b THEN a ELSE b

\* n / d cut to an integer, as int() would instead of the .5f rounding.
RoundDown(n, d) == n \div d

\* n / d rounded to the nearest integer, ties to even (n >= 0, d > 0).
RoundHalfEven(n, d) ==
    LET q == n \div d
        r == n % d
    IN IF 2 * r < d THEN q
       ELSE IF 2 * r > d THEN q + 1
       ELSE IF q % 2 = 0 THEN q ELSE q + 1

RECURSIVE Pow2(_)
Pow2(k) == IF k <= 0 THEN 1 ELSE 2 * Pow2(k - 1)

\* 2^s mod m, without forming 2^s.
RECURSIVE Pow2Mod(_, _)
Pow2Mod(s, m) == IF s <= 0 THEN 1 % m ELSE (2 * Pow2Mod(s - 1, m)) % m

\* floor(log2(n / d)) for n, d > 0.
RECURSIVE Log2Floor(_, _)
Log2Floor(n, d) ==
    IF n >= 2 * d THEN 1 + Log2Floor(n, 2 * d)
    ELSE IF n < d THEN Log2Floor(2 * n, d) - 1
    ELSE 0

\* ------------------------------------------------- Python float seconds
\* timedelta.total_seconds() of a timedelta of n ms (n >= 0): the double
\* nearest to n/1000, ties to even.  With sc = 52 - floor(log2(n/1000)) the
\* double is q / 2^sc for the integer q nearest to n * 2^sc / 1000, so it
\* equals (n * 2^sc + err) / (1000 * 2^sc) with err = 1000*q - n*2^sc, an
\* integer in -500..500.  The record keeps n, err and sc; 0 is exact.
\* A negative timedelta gives the negated double.
TotalSeconds(n) ==
    IF n = 0 THEN [ms |-> 0, err |-> 0, sc |-> 0]
    ELSE LET m  == Abs(n)
             sc == 52 - Log2Floor(m, 1000)
             r  == ((m % 1000) * Pow2Mod(sc, 1000)) % 1000
             r2 == ((m % 2000) * Pow2Mod(sc, 2000)) % 2000
             e  == IF r < 500 THEN -r
                   ELSE IF r > 500 THEN 1000 - r
                   ELSE IF r2 >= 1000 THEN 500 ELSE -500
         IN [ms  |-> n,
             err |-> IF n < 0 THEN -e ELSE e,
             sc  |-> sc]

\* a >= b for two floats.  Doubles of distinct ms values are distinct and
\* ordered as the ms values are; equal ms give the same double.
FloatGeq(a, b) == IF a.ms # b.ms THEN a.ms > b.ms ELSE a.err >= b.err

\* timedelta(seconds=f): f rounded to the nearest microsecond.  The double
\* is within 2^-53 relative of ms/1000, far less than half a microsecond
\* for any subtitle time, so the timedelta is the ms value again.
TimedeltaOfSeconds(f) == f.ms

\* The float expression  a - b < 0.5  of parse_srt_segments, for
\* a = TotalSeconds(..), b = TotalSeconds(..).  The exact difference is
\* (a.ms - b.ms)/1000 + a.err/(1000*2^a.sc) - b.err/(1000*2^b.sc); the
\* subtraction rounds it to a double, and the doubles below 0.5 are those
\* whose preimage lies below 0.5 - 2^-55 (the tie rounds to 0.5, even).
\* When the ms differ from 500 the rounding errors (below 2^-52 of the
\* operands) cannot change the side of 0.5 the result falls on.
FloatDiffBelowHalf(a, b) ==
    IF a.ms - b.ms # MergeGapMs THEN a.ms - b.ms < MergeGapMs
    ELSE IF b.ms = 0 THEN FALSE
    ELSE LET lhs == a.err * Pow2(b.sc - a.sc) - b.err
         IN IF b.sc >= 55 THEN lhs < -(1000 * Pow2(b.sc - 55))
            ELSE lhs * Pow2(55 - b.sc) < -1000

\* get_duration_ms(td) = int(td.total_seconds() * 1000) for td of n ms.
\* With f = TotalSeconds(n) the exact product is n + f.err / 2^f.sc.  The
\* doubles next to n are 2^(E-52) apart (E = floor(log2 n)), half that
\* below n when n is a power of two, and f.err / 2^f.sc is f.err / K of
\* that spacing, K = 2^(E - floor(log2(n/1000))).  The product rounds to a
\* double below n, and int() then gives n - 1, exactly when the error is
\* negative and beyond half the spacing below n (a tie rounds to n, even).
GetDurationMs(n) ==
    IF n = 0 THEN 0
    ELSE LET f    == TotalSeconds(n)
             E    == Log2Floor(n, 1)
             K    == Pow2(E - Log2Floor(n, 1000))
             half == IF n = Pow2(E) THEN 4 ELSE 2
         IN IF f.err < 0 /\ half * (-f.err) > K THEN n - 1 ELSE n

\* The sign of fl(p / q) - p / q for the float division p / q of two
\* positive ints (speed = len(seg) / target_len): 0 when the quotient is a
\* double, else the direction in which the nearest double lies.
FloatDivErrSign(p, q) ==
    LET sc == 52 - Log2Floor(p, q)
        r  == ((p % q) * Pow2Mod(sc, q)) % q
        r2 == ((p % (2 * q)) * Pow2Mod(sc, 2 * q)) % (2 * q)
    IN IF r = 0 THEN 0
       ELSE IF 2 * r < q THEN -1
       ELSE IF 2 * r > q THEN 1
       ELSE IF r2 >= q THEN 1 ELSE -1

\* f"{remain:.5f}" in units of 0.00001, for remain = fl(p / q) scaled by a
\* power of two to the fraction n / d.  The format rounds the double's own
\* value: to the nearest unit, and when n / d lies exactly between two
\* units the double's error decides (half to even if the double is exact).
FormatFixed5(n, d, p, q) ==
    IF (2 * n * AtempoScale) % d = 0 /\ ((2 * n * AtempoScale) \div d) % 2 = 1
       /\ FloatDivErrSign(p, q) # 0
    THEN (n * AtempoScale) \div d + (IF FloatDivErrSign(p, q) > 0 THEN 1 ELSE 0)
    ELSE RoundHalfEven(n * AtempoScale, d)

\* ------------------------------------------------------------- sorting
\* list.sort(key=lambda x: x.start): stable, ascending by start.
RECURSIVE InsertByStart(_, _)
InsertByStart(sorted, x) ==
    IF sorted = << >> THEN << x >>
    ELSE IF sorted[Len(sorted)].start <= x.start THEN Append(sorted, x)
    ELSE Append(InsertByStart(SubSeq(sorted, 1, Len(sorted) - 1), x),
                sorted[Len(sorted)])

RECURSIVE SortByStart(_)
SortByStart(s) ==
    IF s = << >> THEN << >>
    ELSE InsertByStart(SortByStart(SubSeq(s, 1, Len(s) - 1)), s[Len(s)])

\* --------------------------------------------------- parse_srt_segments
\* A kept segment {"start": float, "end": float}.  Both floats are
\* total_seconds() of a cue boundary, so the segment keeps the ms value and
\* TotalSeconds gives the float back.
Segment(x) == [start |-> x.start, end |-> x.end]

\* The merge test  x.start.total_seconds() - segments[-1]["end"] < 0.5.
MergesInto(last, x) ==
    FloatDiffBelowHalf(TotalSeconds(x.start), TotalSeconds(last.end))

\* The loop body of parse_srt_segments at cue x.
MergeCue(segments, x) ==
    IF Len(segments) = 0 THEN << Segment(x) >>
    ELSE IF MergesInto(segments[Len(segments)], x)
         THEN [segments EXCEPT ![Len(segments)].end = x.end]
         ELSE Append(segments, Segment(x))

\* The for loop over the first k cues of the sorted list.
RECURSIVE MergeLoop(_, _)
MergeLoop(sorted, k) ==
    IF k = 0 THEN << >> ELSE MergeCue(MergeLoop(sorted, k - 1), sorted[k])

\* parse_srt_segments without its subs.sort(...) line.
ParseSrtSegmentsUnsorted(cues) == MergeLoop(cues, Len(cues))

ParseSrtSegments(cues) ==
    LET sorted == SortByStart(cues) IN MergeLoop(sorted, Len(sorted))

\* sum(seg["end"] - seg["start"] for seg in segments) of cut_video, in ms.
RECURSIVE TotalDuration(_)
TotalDuration(segs) ==
    IF segs = << >> THEN 0
    ELSE TotalDuration(SubSeq(segs, 1, Len(segs) - 1))
         + (segs[Len(segs)].end - segs[Len(segs)].start)

\* -------------------------------------------------------------- sync_srt
\* max(sub.end for sub in subs) over a non-empty list.
RECURSIVE MaxEnd(_)
MaxEnd(s) ==
    IF Len(s) = 1 THEN s[1].end
    ELSE Max(MaxEnd(SubSeq(s, 1, Len(s) - 1)), s[Len(s)].end)

\* The test  gap >= max_gap  with gap = (sub.start - prev.end).total_seconds()
\* and max_gap the float of the --gap value.
GapRemoved(prev, sub, G) ==
    FloatGeq(TotalSeconds(sub.start - prev.end), TotalSeconds(G))

\* sync_srt with total_shift starting at zero instead of first_start.
FirstShiftZero(sorted) == 0

\* first_start = subs[0].start; total_shift = first_start
FirstShift(sorted) == sorted[1].start

\* The shift loop over the first k cues of the sorted list: total_shift
\* after cue k and the cues appended to synced so far.
RECURSIVE SyncLoop(_, _, _)
SyncLoop(sorted, k, G) ==
    IF k = 0 THEN [shift |-> FirstShift(sorted), out |-> << >>]
    ELSE LET before == SyncLoop(sorted, k - 1, G)
             gap    == TotalSeconds(sorted[k].start - sorted[k - 1].end)
             shift  == IF k > 1 /\ GapRemoved(sorted[k - 1], sorted[k], G)
                       THEN before.shift + TimedeltaOfSeconds(gap)
                       ELSE before.shift
         IN [shift |-> shift,
             out   |-> Append(before.out,
                              [start |-> sorted[k].start - shift,
                               end   |-> sorted[k].end - shift])]

\* total_shift after the loop has handled cue k of the sorted list.
TotalShift(sorted, k, G) == SyncLoop(sorted, k, G).shift

\* The synced list: every cue moved left by the shift accumulated so far.
SyncSrt(cues, G) ==
    LET sorted == SortByStart(cues) IN SyncLoop(sorted, Len(sorted), G).out

\* saved = original_end - new_end, logged by sync_srt.
SyncSaved(cues, G) == MaxEnd(SortByStart(cues)) - MaxEnd(SyncSrt(cues, G))

\* ================================================================ state
VARIABLES
    prog,       \* the tool that runs: "sync", "cut_select", "cut_trim", "voice"
    pc,         \* position of the running invocation
    subs,       \* the cues of the input .srt, in file order
    maxGap,     \* sync_srt: max_gap in ms
    synced,     \* sync_srt: the list written to the output .srt
    segments,   \* cut_video: the result of parse_srt_segments
    probeRc,    \* cut_video (select): ffprobe's exit status, -1 before it ran
    fps,        \* cut_video (select): "unset", "rate" or "" (ffprobe printed nothing)
    tempDir,    \* cut_video: TRUE while the mkdtemp() directory exists
    ffmpegRc,   \* exit status of the last ffmpeg run, -1 before any
    ffmpegRuns, \* number of ffmpeg runs of this invocation
    outcome,    \* "running", "returned", "returned_none", "raised"
    diag,       \* what a raised exception carries
    idx,        \* srt_to_voice: number of the cue being handled, from 1
    lastEnd,    \* srt_to_voice: last_end in ms
    track,      \* srt_to_voice: total length (ms) of audio_segments
    gapLen,     \* srt_to_voice: silence appended before the current cue
    rendered,   \* srt_to_voice: len(seg) as synthesized
    target,     \* srt_to_voice: target_len
    segLen,     \* srt_to_voice: length of the segment appended for the cue
    audioLen,   \* ffmpeg_speedup: len(audio), the trimmed buffer
    remain,     \* ffmpeg_speedup: remain as the fraction << num, den >>
    stages,     \* ffmpeg_speedup: atempo values, in units of 0.00001
    tmpIn,      \* ffmpeg_speedup: TRUE while f_in's file exists
    tmpOut,     \* ffmpeg_speedup: TRUE while f_out's file exists
    speedRc,    \* ffmpeg_speedup: ffmpeg's exit status, -1 before it ran
    speedRuns,  \* ffmpeg_speedup: ffmpeg runs of the current call
    sped,       \* ffmpeg_speedup: len(sped), the buffer read back
    outFile     \* what the output path holds: "old", "partial" or "new"

voiceVars == << idx, lastEnd, track, gapLen, rendered, target, segLen >>
speedVars == << audioLen, remain, stages, tmpIn, tmpOut, speedRc, speedRuns,
                sped >>

vars == << prog, pc, subs, maxGap, synced, segments, probeRc, fps, tempDir,
           ffmpegRc, ffmpegRuns, outcome, diag, voiceVars, speedVars,
           outFile >>

syncVars == << maxGap, synced >>
cutVars  == << segments, probeRc, fps, tempDir, ffmpegRc, ffmpegRuns >>

\* Exit statuses of an external process: success and failure.
ExitCodes == {0, 1}

\* How writing a file at a path can end: written in full, the open fails
\* (the path keeps what it held), or the path is opened for writing, which
\* empties it, and an error stops the write part-way.
WriteResults == {"written", "open_failed", "write_failed"}

\* What the path holds after a write that ended as w.
Written(w) ==
    CASE w = "written"      -> "new"
      [] w = "open_failed"  -> "old"
      [] w = "write_failed" -> "partial"

Init ==
    /\ prog \in {"sync", "cut_select", "cut_trim", "voice"}
    /\ pc = "start"
    /\ subs \in (IF prog = "voice" THEN VoiceCueSeqs ELSE CueSeqs)
    /\ maxGap \in (IF prog = "sync" THEN MaxGaps ELSE {DefaultMaxGapMs})
    /\ synced = << >>
    /\ segments = << >>
    /\ probeRc = -1
    /\ fps = "unset"
    /\ tempDir = FALSE
    /\ ffmpegRc = -1
    /\ ffmpegRuns = 0
    /\ outcome = "running"
    /\ diag = "none"
    /\ idx = 0
    /\ lastEnd = 0
    /\ track = 0
    /\ gapLen = 0
    /\ rendered = 0
    /\ target = 0
    /\ segLen = 0
    /\ audioLen = 0
    /\ remain = << 0, 1 >>
    /\ stages = << >>
    /\ tmpIn = FALSE
    /\ tmpOut = FALSE
    /\ speedRc = -1
    /\ speedRuns = 0
    /\ sped = 0
    /\ outFile = "old"

\* ------------------------------------------------------------- sync_srt
\* sync_srt on a file without cues: warns and returns None.
SyncSrtEmpty ==
    /\ prog = "sync" /\ pc = "start"
    /\ subs = << >>
    /\ pc' = "done"
    /\ outcome' = "returned_none"
    /\ UNCHANGED << outFile, prog, subs, voiceVars, speedVars, syncVars, cutVars, diag >>

\* sync_srt: sort, shift every cue, then
\* with open(output_file, "w", encoding=encoding) as f: f.write(...)
\* on the output path itself; an OSError of open or write leaves the function.
SyncSrtRun ==
    /\ prog = "sync" /\ pc = "start"
    /\ subs # << >>
    /\ synced' = SyncSrt(subs, maxGap)
    /\ pc' = "done"
    /\ \E w \in WriteResults :
         /\ outFile' = Written(w)
         /\ IF w = "written"
            THEN outcome' = "returned" /\ diag' = diag
            ELSE outcome' = "raised" /\ diag' = "OSError"
    /\ UNCHANGED << prog, subs, voiceVars, speedVars, maxGap, cutVars >>

\* ------------------------------------------------------------ cut_video
IsCut == prog \in {"cut_select", "cut_trim"}

\* segments = parse_srt_segments(srt_file, encoding); nothing to cut
\* returns None.
CutParse ==
    /\ IsCut /\ pc = "start"
    /\ segments' = ParseSrtSegments(subs)
    /\ IF segments' = << >>
       THEN pc' = "done" /\ outcome' = "returned_none"
       ELSE pc' = (IF prog = "cut_select" THEN "probe" ELSE "mkdtemp")
            /\ outcome' = outcome
    /\ UNCHANGED << outFile, prog, subs, voiceVars, speedVars, syncVars, probeRc, fps, tempDir, ffmpegRc,
                    ffmpegRuns, diag >>

\* Select strategy only: subprocess.run(probe_cmd); fps = stdout.strip().
\* The exit status is not looked at; a failed ffprobe prints no rate.
CutProbe ==
    /\ prog = "cut_select" /\ pc = "probe"
    /\ \E rc \in ExitCodes :
         /\ probeRc' = rc
         /\ fps' = (IF rc = 0 THEN "rate" ELSE "")
    /\ pc' = "mkdtemp"
    /\ UNCHANGED << outFile, prog, subs, voiceVars, speedVars, syncVars, segments, tempDir, ffmpegRc,
                    ffmpegRuns, outcome, diag >>

\* temp_dir = tempfile.mkdtemp()
CutMkdtemp ==
    /\ IsCut /\ pc = "mkdtemp"
    /\ tempDir' = TRUE
    /\ pc' = "write_filter"
    /\ UNCHANGED << outFile, prog, subs, voiceVars, speedVars, syncVars, segments, probeRc, fps, ffmpegRc,
                    ffmpegRuns, outcome, diag >>

\* with open(filter_script, "w") as f: f.write(filter_complex)
\* The write succeeds, or raises OSError inside the try block.
CutWriteFilter ==
    /\ IsCut /\ pc = "write_filter"
    /\ \/ pc' = "ffmpeg" /\ UNCHANGED << outcome, diag >>
       \/ pc' = "finally" /\ outcome' = "raised" /\ diag' = "OSError"
    /\ UNCHANGED << outFile, prog, subs, voiceVars, speedVars, syncVars, cutVars >>

\* result = subprocess.run(cmd, ...); a non-zero status raises
\* RuntimeError with result.stderr, otherwise the function returns.
\* cmd is "ffmpeg -y ... output_video": ffmpeg writes the output path
\* itself, replacing what is there; a run that fails has not opened it yet
\* or leaves what it had written so far.
CutFfmpeg ==
    /\ IsCut /\ pc = "ffmpeg"
    /\ \E rc \in ExitCodes :
         /\ ffmpegRc' = rc
         /\ IF rc # 0
            THEN /\ outcome' = "raised" /\ diag' = "ffmpeg stderr"
                 /\ \E w \in WriteResults \ {"written"} : outFile' = Written(w)
            ELSE /\ outcome' = "returned" /\ diag' = diag
                 /\ outFile' = Written("written")
    /\ ffmpegRuns' = ffmpegRuns + 1
    /\ pc' = "finally"
    /\ UNCHANGED << prog, subs, voiceVars, speedVars, syncVars, segments, probeRc, fps, tempDir >>

\* finally: shutil.rmtree(temp_dir, ignore_errors=True)
CutFinally ==
    /\ IsCut /\ pc = "finally"
    /\ tempDir' = FALSE
    /\ pc' = "done"
    /\ UNCHANGED << outFile, prog, subs, voiceVars, speedVars, syncVars, segments, probeRc, fps, ffmpegRc,
                    ffmpegRuns, outcome, diag >>

\* --------------------------------------------------------- srt_to_voice
IsVoice == prog = "voice"

\* The list is read; audio_segments = [], last_end = 0.  The cues are
\* taken in file order (srt_to_voice does not sort).
VoiceStart ==
    /\ IsVoice /\ pc = "start"
    /\ pc' = "v_cue"
    /\ UNCHANGED << outFile, prog, subs, voiceVars, speedVars, syncVars, cutVars,
                    outcome, diag >>

\* One pass of the for loop up to the branch on len(seg) > target_len:
\* the silence before the cue, the synthesized speech, target_len, and in
\* the else branch the right padding, the append and last_end = sub.end.
VoiceSynthesize ==
    /\ IsVoice /\ pc = "v_cue" /\ idx < Len(subs)
    /\ LET sub == subs[idx + 1]
           gap == IF sub.start > lastEnd
                  THEN GetDurationMs(sub.start - lastEnd) ELSE 0
           tl  == GetDurationMs(sub.end - sub.start)
       IN \E r \in Rendered :
            /\ idx' = idx + 1
            /\ gapLen' = gap
            /\ rendered' = r
            /\ target' = tl
            /\ IF r > tl
               THEN /\ pc' = "v_trim"
                    /\ track' = track + gap
                    /\ UNCHANGED << segLen, lastEnd >>
               ELSE /\ pc' = "v_cue"
                    /\ segLen' = r + (tl - r)
                    /\ track' = track + gap + segLen'
                    /\ lastEnd' = sub.end
    /\ UNCHANGED << outFile, prog, subs, speedVars, syncVars, cutVars, outcome, diag >>

\* seg = trim_silence(seg); ffmpeg_speedup(seg, speed=len(seg)/target_len)
\* is entered with the trimmed buffer.
VoiceTrim ==
    /\ IsVoice /\ pc = "v_trim"
    /\ \E t \in TrimmedLens(rendered) :
         /\ audioLen' = t
         /\ remain' = << t, target >>
    /\ stages' = << >>
    /\ speedRc' = -1
    /\ speedRuns' = 0
    /\ pc' = "sp_open"
    /\ UNCHANGED << outFile, prog, subs, voiceVars, syncVars, cutVars, outcome, diag,
                    tmpIn, tmpOut, sped >>

\* ------------------------------------------------------- ffmpeg_speedup
\* The two NamedTemporaryFile(suffix=".wav", delete=False) are created.
SpeedupOpen ==
    /\ IsVoice /\ pc = "sp_open"
    /\ tmpIn' = TRUE
    /\ tmpOut' = TRUE
    /\ pc' = "sp_export"
    /\ UNCHANGED << outFile, prog, subs, voiceVars, syncVars, cutVars, outcome, diag,
                    audioLen, remain, stages, speedRc, speedRuns, sped >>

\* audio.export(f_in.name, format="wav"): written, or an OSError leaves the
\* with block and the function.
SpeedupExport ==
    /\ IsVoice /\ pc = "sp_export"
    /\ \/ pc' = "sp_loop" /\ UNCHANGED << outcome, diag >>
       \/ pc' = "done" /\ outcome' = "raised" /\ diag' = "OSError"
    /\ UNCHANGED << outFile, prog, subs, voiceVars, speedVars, syncVars, cutVars >>

\* while remain > 2.0: atempo_filters.append("atempo=2.0"); remain /= 2.0
SpeedupHigh ==
    /\ IsVoice /\ pc = "sp_loop"
    /\ remain[1] > 2 * remain[2]
    /\ Len(stages) < MaxStages
    /\ stages' = Append(stages, 2 * AtempoScale)
    /\ remain' = << remain[1], 2 * remain[2] >>
    /\ UNCHANGED << outFile, prog, pc, subs, voiceVars, syncVars, cutVars, outcome,
                    diag, audioLen, tmpIn, tmpOut, speedRc, speedRuns, sped >>

\* while remain < 0.5: atempo_filters.append("atempo=0.5"); remain /= 0.5
\* (entered once the first loop has ended; it cannot raise remain above 2).
SpeedupLow ==
    /\ IsVoice /\ pc = "sp_loop"
    /\ ~(remain[1] > 2 * remain[2])
    /\ 2 * remain[1] < remain[2]
    /\ Len(stages) < MaxStages
    /\ stages' = Append(stages, AtempoScale \div 2)
    /\ remain' = << 2 * remain[1], remain[2] >>
    /\ UNCHANGED << outFile, prog, pc, subs, voiceVars, syncVars, cutVars, outcome,
                    diag, audioLen, tmpIn, tmpOut, speedRc, speedRuns, sped >>

\* Both loops have ended: atempo_filters.append(f"atempo={remain:.5f}").
SpeedupLast ==
    /\ IsVoice /\ pc = "sp_loop"
    /\ ~(remain[1] > 2 * remain[2])
    /\ ~(2 * remain[1] < remain[2])
    /\ stages' = Append(stages, FormatFixed5(remain[1], remain[2], audioLen, target))
    /\ pc' = "sp_run"
    /\ UNCHANGED << outFile, prog, subs, voiceVars, syncVars, cutVars, outcome, diag,
                    audioLen, remain, tmpIn, tmpOut, speedRc, speedRuns, sped >>

\* subprocess.run(cmd, stdout=DEVNULL, stderr=DEVNULL): the exit status is
\* not looked at and ffmpeg's messages are thrown away.
SpeedupRun ==
    /\ IsVoice /\ pc = "sp_run"
    /\ \E rc \in ExitCodes : speedRc' = rc
    /\ speedRuns' = speedRuns + 1
    /\ pc' = "sp_read"
    /\ UNCHANGED << outFile, prog, subs, voiceVars, syncVars, cutVars, outcome, diag,
                    audioLen, remain, stages, tmpIn, tmpOut, sped >>

\* sped = AudioSegment.from_file(f_out.name, format="wav").  After a
\* successful run the buffer is as long as asked for, give or take the
\* stretcher's rounding.  After a failed run f_out holds what ffmpeg left:
\* nothing decodable (from_file raises) or a truncated stream.
SpeedupRead ==
    /\ IsVoice /\ pc = "sp_read"
    /\ \/ /\ speedRc = 0
          /\ \E n \in (target - StretchJitterMs)..(target + StretchJitterMs) :
                sped' = n
          /\ pc' = "sp_unlink"
          /\ UNCHANGED << outcome, diag >>
       \/ /\ speedRc # 0
          /\ sped' = target \div 2
          /\ pc' = "sp_unlink"
          /\ UNCHANGED << outcome, diag >>
       \/ /\ speedRc # 0
          /\ pc' = "done" /\ outcome' = "raised" /\ diag' = "CouldntDecodeError"
          /\ sped' = sped
    /\ UNCHANGED << outFile, prog, subs, voiceVars, syncVars, cutVars, audioLen,
                    remain, stages, tmpIn, tmpOut, speedRc, speedRuns >>

\* os.unlink(f_in.name); os.unlink(f_out.name); return sped
SpeedupUnlink ==
    /\ IsVoice /\ pc = "sp_unlink"
    /\ tmpIn' = FALSE
    /\ tmpOut' = FALSE
    /\ pc' = "v_cut"
    /\ UNCHANGED << outFile, prog, subs, voiceVars, syncVars, cutVars, outcome, diag,
                    audioLen, remain, stages, speedRc, speedRuns, sped >>

\* seg = seg[:target_len]; audio_segments.append(seg); last_end = sub.end
VoiceTruncate ==
    /\ IsVoice /\ pc = "v_cut"
    /\ segLen' = Min(sped, target)
    /\ track' = track + segLen'
    /\ lastEnd' = subs[idx].end
    /\ pc' = "v_cue"
    /\ UNCHANGED << outFile, prog, subs, idx, gapLen, rendered, target, speedVars,
                    syncVars, cutVars, outcome, diag >>

\* After the loop: the segments are summed and
\* final_audio.export(out_path, format="wav") opens out_path and writes
\* the wav to it; an OSError of open or write leaves the function.
VoiceExport ==
    /\ IsVoice /\ pc = "v_cue" /\ idx = Len(subs)
    /\ pc' = "done"
    /\ \E w \in WriteResults :
         /\ outFile' = Written(w)
         /\ IF w = "written"
            THEN outcome' = "returned" /\ diag' = diag
            ELSE outcome' = "raised" /\ diag' = "OSError"
    /\ UNCHANGED << prog, subs, voiceVars, speedVars, syncVars, cutVars >>

Next ==
    \/ SyncSrtEmpty
    \/ SyncSrtRun
    \/ CutParse
    \/ CutProbe
    \/ CutMkdtemp
    \/ CutWriteFilter
    \/ CutFfmpeg
    \/ CutFinally
    \/ VoiceStart
    \/ VoiceSynthesize
    \/ VoiceTrim
    \/ SpeedupOpen
    \/ SpeedupExport
    \/ SpeedupHigh
    \/ SpeedupLow
    \/ SpeedupLast
    \/ SpeedupRun
    \/ SpeedupRead
    \/ SpeedupUnlink
    \/ VoiceTruncate
    \/ VoiceExport

Spec == Init /\ [][Next]_vars

\* =============================================================== claims
SyncDone == prog = "sync" /\ pc = "done" /\ outcome = "returned"
Parsed   == IsCut /\ pc # "start"

\* The last kept interval after the merger has handled the first k cues.
LastKept(sorted, k) == MergeLoop(sorted, k)[Len(MergeLoop(sorted, k))]

\* The rearrangements of a cue list.
Rearrangements(s) ==
    {[i \in 1..Len(s) |-> s[f[i]]] :
        f \in {g \in [1..Len(s) -> 1..Len(s)] :
                  \A i, j \in 1..Len(s) : g[i] = g[j] => i = j}}

\* C1: with sync_srt given the merger's threshold (max_gap = 0.5 s), at
\* every cue after the first of the sorted list the merger starts a new
\* kept interval exactly when sync_srt adds that cue's gap to total_shift.
C1_SameDecision ==
    (SyncDone /\ maxGap = MergeGapMs) =>
        LET sorted == SortByStart(subs)
        IN \A i \in 2..Len(sorted) :
              ~MergesInto(LastKept(sorted, i - 1), sorted[i])
                  <=> GapRemoved(sorted[i - 1], sorted[i], maxGap)

\* C2: the kept intervals of parse_srt_segments are strictly increasing by
\* start, pairwise non-overlapping, and each ends after it starts, whatever
\* the order, overlap or nesting of the cues.
C2_KeptIntervalsOrdered ==
    Parsed =>
        /\ \A i \in 1..Len(segments) : segments[i].start < segments[i].end
        /\ \A i, j \in 1..Len(segments) :
              i < j => /\ segments[i].start < segments[j].start
                       /\ segments[i].end <= segments[j].start

\* C2 witness: cues out of start order, one nested in another, and the
\* merger has produced two kept intervals.
C2_Witness ==
    /\ Parsed
    /\ Len(segments) >= 2
    /\ \E i, j \in 1..Len(subs) : i < j /\ subs[i].start > subs[j].start
    /\ \E i, j \in 1..Len(subs) :
          i # j /\ subs[i].start <= subs[j].start /\ subs[j].end < subs[i].end

\* C3: the latest resynced cue end equals the total duration of the kept
\* intervals (so the duration sync_srt removes is the duration the cut
\* removes), for the same threshold.
C3_RemovedMatchesKept ==
    (SyncDone /\ maxGap = MergeGapMs) =>
        MaxEnd(synced) = TotalDuration(ParseSrtSegments(subs))

\* C4: after sync_srt every resynced cue starts at or after 0 and the first
\* cue in start order starts at 0.
C4_ShiftWithinStart ==
    SyncDone =>
        /\ \A i \in 1..Len(synced) : synced[i].start >= 0
        /\ synced[1].start = 0

\* C4 witness: the first cue does not start at 0, cues overlap, and a later
\* gap has been removed on top of the initial shift.
C4_Witness ==
    /\ SyncDone
    /\ Len(synced) >= 3
    /\ LET sorted == SortByStart(subs)
       IN /\ sorted[1].start > 0
          /\ sorted[2].start < sorted[1].end
          /\ TotalShift(sorted, Len(sorted), maxGap) > sorted[1].start

\* A cue of srt_to_voice has just been appended to audio_segments.
CueAppended == IsVoice /\ pc = "v_cue" /\ idx >= 1

\* C5: the segment appended for a cue lasts exactly the cue's duration
\* end - start, in the padding branch and in the speed-up branch.
C5_SegmentHasCueDuration ==
    CueAppended => segLen = subs[idx].end - subs[idx].start

\* C6: after a cue is appended the track is as long as the cue's end
\* timestamp, and the silence put before the cue is its start minus the
\* previous cue's end (its start, for the first cue).
C6_TrackEndsAtCueEnd ==
    CueAppended =>
        /\ track = subs[idx].end
        /\ gapLen = subs[idx].start - (IF idx = 1 THEN 0 ELSE subs[idx - 1].end)

RECURSIVE GCD(_, _)
GCD(a, b) == IF b = 0 THEN a ELSE GCD(b, a % b)

\* The fraction f = << num, den >> times n / d, in lowest terms.
FracTimes(f, n, d) ==
    LET g == GCD(f[1] * n, f[2] * d)
    IN IF g = 0 THEN << 0, 1 >> ELSE << (f[1] * n) \div g, (f[2] * d) \div g >>

\* The product of the first k atempo values, as a fraction.
RECURSIVE StageProduct(_, _)
StageProduct(st, k) ==
    IF k = 0 THEN << 1, 1 >>
    ELSE LET g == GCD(st[k], AtempoScale)
         IN FracTimes(StageProduct(st, k - 1), st[k] \div g, AtempoScale \div g)

FracEq(f, n, d) == f[1] * d = n * f[2]

\* The atempo list of a call with speed > 0 is complete.
StagesBuilt == IsVoice /\ pc = "sp_run" /\ audioLen > 0

StagesInRange ==
    \A i \in 1..Len(stages) :
        AtempoScale \div 2 <= stages[i] /\ stages[i] <= 2 * AtempoScale

\* C7 as stated: every stage ratio lies in [0.5, 2.0] and the product of
\* the stage ratios equals r = len(audio) / target_len.
C7_ProductEqualsRatio ==
    StagesBuilt =>
        /\ StagesInRange
        /\ FracEq(StageProduct(stages, Len(stages)), audioLen, target)

\* C7 amended: every stage ratio lies in [0.5, 2.0]; every stage but the last
\* is exactly 2.0 or 0.5 and these times the remaining factor give r; the
\* last stage is the remaining factor rounded to five decimals, so the
\* product is r when the remaining factor has at most five decimals;
\* r = 5 gives [2.0, 2.0, 1.25] and r = 1.5 gives [1.5].
C7_ProductEqualsRatioRounded ==
    StagesBuilt =>
        LET k    == Len(stages)
            last == stages[k]
        IN /\ StagesInRange
           /\ \A i \in 1..(k - 1) :
                 stages[i] \in {2 * AtempoScale, AtempoScale \div 2}
           /\ FracEq(FracTimes(StageProduct(stages, k - 1), remain[1], remain[2]),
                     audioLen, target)
           /\ 2 * Abs(last * remain[2] - remain[1] * AtempoScale) <= remain[2]
           /\ (remain[1] * AtempoScale) % remain[2] = 0 =>
                 FracEq(StageProduct(stages, k), audioLen, target)
           /\ audioLen = 5 * target =>
                 stages = << 2 * AtempoScale, 2 * AtempoScale, 125000 >>
           /\ 2 * audioLen = 3 * target => stages = << 150000 >>

\* C7 witness: a ratio above 2 whose remaining factor does not fit five
\* decimals, so the list has a 2.0 stage and a rounded last stage.
C7_Witness ==
    /\ StagesBuilt
    /\ Len(stages) >= 2
    /\ (remain[1] * AtempoScale) % remain[2] # 0

\* C9: a non-zero exit status of ffprobe, of cut_video's ffmpeg or of
\* ffmpeg_speedup's ffmpeg ends the invoking operation with an error that
\* carries the process's diagnostics; the failed call's output is not used
\* and the process is not run again.
C9_ExternalFailureSurfaced ==
    /\ probeRc > 0 =>
          /\ ffmpegRuns = 0
          /\ pc = "done" => (outcome = "raised" /\ diag = "ffprobe stderr")
    /\ ffmpegRc > 0 =>
          /\ ffmpegRuns = 1
          /\ outcome = "raised" /\ diag = "ffmpeg stderr"
    /\ speedRc > 0 =>
          /\ speedRuns = 1
          /\ pc \in {"sp_read", "done"}
          /\ pc = "done" => (outcome = "raised" /\ diag = "ffmpeg stderr")

\* C10: when an invocation has ended, on any path, the filter-script
\* directory and the two temporary wav files are gone.
C10_TempResourcesReleased ==
    pc = "done" => (~tempDir /\ ~tmpIn /\ ~tmpOut)

\* C11: an operation that ended with an error has left the output path as
\* it was, and the path holds new content only once the operation has
\* succeeded, never a part-written file.
C11_OutputUntouchedOnFailure ==
    /\ outcome = "raised" => outFile = "old"
    /\ outFile # "old" => (outFile = "new" /\ outcome = "returned")

\* C12: a merge never shortens the current kept interval: after cue k of
\* the sorted list is merged, the interval ends at the larger of its former
\* end and the cue's end; so every cue's [start, end] lies inside one kept
\* interval.
C12_MergeTakesMaxEnd ==
    Parsed =>
        LET sorted == SortByStart(subs)
        IN /\ \A k \in 2..Len(sorted) :
                 MergesInto(LastKept(sorted, k - 1), sorted[k]) =>
                     LastKept(sorted, k).end =
                         Max(LastKept(sorted, k - 1).end, sorted[k].end)
           /\ \A i \in 1..Len(subs) : \E j \in 1..Len(segments) :
                 /\ segments[j].start <= subs[i].start
                 /\ subs[i].end <= segments[j].end

\* The two while loops, started at remain = r, end within n iterations.
RECURSIVE LoopsEndWithin(_, _)
LoopsEndWithin(r, n) ==
    IF r[1] > 2 * r[2]
    THEN n > 0 /\ LoopsEndWithin(<< r[1], 2 * r[2] >>, n - 1)
    ELSE IF 2 * r[1] < r[2]
         THEN n > 0 /\ LoopsEndWithin(<< 2 * r[1], r[2] >>, n - 1)
         ELSE TRUE

\* C13: whenever ffmpeg_speedup is at its stage loops, for whatever buffer
\* trim_silence returned (an empty one included), the loops end after
\* finitely many further iterations (the iterations followed are enough).
C13_LoopsTerminate ==
    (IsVoice /\ pc = "sp_loop") =>
        LoopsEndWithin(remain, MaxStages - Len(stages))

\* C8: every rearrangement of the cue list gives the same kept intervals.
C8_OrderIndependent ==
    Parsed => \A p \in Rearrangements(subs) : ParseSrtSegments(p) = segments

====
